---- MODULE Spec2Model ----
(***************************************************************************)
(* Model of Tone/source/Source.ts: the playback state machine of a Source, *)
(* its StateTimeline and its synchronisation with the Transport.           *)
(*                                                                         *)
(* Time is counted in sample periods (SampleTime = 1), so the rendering    *)
(* clock, the Transport position and every event time are naturals.        *)
(* An optional argument (time?, offset?, duration?) is <<>> when it is     *)
(* undefined and <<v>> when it is the number v.                            *)
(***************************************************************************)
EXTENDS Integers, Sequences, FiniteSets, TLC

\* ----- bounds of the model
MaxTime == 1      \* the rendering clock and the Transport position stay in 0..MaxTime
MaxSched == 1     \* Transport.schedule is called at most MaxSched times
MaxSync == 1      \* sync() installs bridge closures at most MaxSync times
MaxAfterDispose == 1   \* at most MaxAfterDispose calls are made on a disposed instance

\* ----- program constants
\* Source.ts:103 sets the retention bound of the Timeline to 100.  Event times
\* are scaled to 0..MaxTime+LookAhead here, and the retention bound is scaled
\* with them so that a Timeline can fill up.
Memory == 2
LookAhead == 1    \* context.lookAhead, in sample periods
SampleTime == 1   \* 1 / context.sampleRate, the unit of time

Undef == <<>>
Some(v) == <<v>>
IsUndef(x) == x = Undef
Val(x) == x[1]
Max(a, b) == IF a >= b THEN a ELSE b

Times == 0..MaxTime
TimeArgs == {Undef} \cup {Some(t) : t \in 0..(MaxTime + LookAhead)}
\* the (offset, duration) pairs start is called with
StartArgs == {<<Undef, Undef>>, <<Some(2), Some(1)>>}

VARIABLES
    currentTime,   \* context.currentTime
    timeline,      \* this._state: the events of the StateTimeline, in time order
    synced,        \* this._synced
    scheduled,     \* this._scheduled
    syncedStart,   \* this._syncedStart: 0 is noOp, n > 0 the closure of the n-th sync
    syncedStop,    \* this._syncedStop
    disposed,      \* dispose() has run
    afterDispose,  \* the number of calls made since dispose()
    tState,        \* transport.state
    tSeconds,      \* transport.seconds, the position at currentTime
    tBefore,       \* the Transport position one sample period before currentTime
    tTable,        \* the Transport's deferred callbacks of this instance
    tListeners,    \* the Transport's event listeners of this instance
    nextId,        \* the next identifier Transport.schedule returns
    nextFn,        \* the number of the next bridge closure
    calls,         \* the primitives (_start, _stop, restart) the last step invoked, in order
    lastOp,        \* what the last step was
    limits,        \* what a run is held to: the calls of Transport.schedule and
                   \* the latest time a start or stop is given
    keyed,         \* for each event of the Timeline: its time, the clock its time
                   \* was read on and whether the source was synced when recorded
    scen           \* the calls made so far, while they are start(t0) then stop(t1),
                   \* or sync() then start(t0, offset); Other after any other call

vars == <<currentTime, timeline, synced, scheduled, syncedStart, syncedStop,
          disposed, afterDispose, tState, tSeconds, tBefore, tTable, tListeners, nextId,
          nextFn, calls, lastOp, limits, keyed, scen>>

\* ----- ToneWithContext
now == currentTime + LookAhead

\* toSeconds of an undefined time is "now"
toSeconds(time) == IF IsUndef(time) THEN now ELSE Val(time)

\* ----- StateTimeline
\* the number of events at or before time: the index of the latest of them
Search(tl, time) == Cardinality({i \in 1..Len(tl) : tl[i].time <= time})

getValueAtTime(tl, time) ==
    IF Search(tl, time) = 0 THEN "stopped" ELSE tl[Search(tl, time)].state

cancel(tl, time) == SelectSeq(tl, LAMBDA e : e.time < time)

\* without the assignment no event is ever evicted
StateMemoryUnset == MaxTime + LookAhead + 2
\* this._state.memory = 100 in the constructor
StateMemory == Memory

Evict(tl) ==
    IF Len(tl) > StateMemory
    THEN SubSeq(tl, Len(tl) - StateMemory + 1, Len(tl))
    ELSE tl

setStateAtTime(tl, state, time) ==
    Evict(SelectSeq(tl, LAMBDA e : e.time < time)
          \o <<[time |-> time, state |-> state, offset |-> Undef, duration |-> Undef]>>
          \o SelectSeq(tl, LAMBDA e : e.time > time))

\* event = this._state.get(time); if (event) { event.offset = ...; event.duration = ... }
SetExtra(tl, time, offset, duration) ==
    IF Search(tl, time) = 0 THEN tl
    ELSE [tl EXCEPT ![Search(tl, time)].offset = offset,
                    ![Search(tl, time)].duration = duration]

\* ----- Transport
Events == {"start", "loopStart", "stop", "pause", "loopEnd"}

getSecondsAtTime(t) == IF t >= currentTime THEN tSeconds ELSE tBefore

\* ----- the primitives of the concrete source, as records of the invocation
\* by: "call" when start or stop invokes it itself, "bridge" when a bridge of
\* sync() does, "deferred" when a callback given to Transport.schedule does
StartCall(by, time, offset, duration) ==
    [fn |-> "_start", by |-> by, time |-> time, offset |-> offset, duration |-> duration]
StopCall(by, time) ==
    [fn |-> "_stop", by |-> by, time |-> time, offset |-> Undef, duration |-> Undef]
RestartCall(time, offset, duration) ==
    [fn |-> "restart", by |-> "call", time |-> time, offset |-> offset,
     duration |-> duration]

Truthy(x) == ~IsUndef(x) /\ Val(x) # 0

\* ----- the bridges installed by sync()
SyncedStartCalls(tl, time, offset) ==
    IF offset > 0 /\ Search(tl, offset) > 0
    THEN LET stateEvent == tl[Search(tl, offset)]
             startOffset == offset - stateEvent.time
         IN  IF stateEvent.state = "started" /\ stateEvent.time # offset
             THEN <<StartCall("bridge", time,
                              Some(toSeconds(stateEvent.offset) + startOffset),
                              IF Truthy(stateEvent.duration)
                              THEN Some(Val(stateEvent.duration) - startOffset)
                              ELSE Undef)>>
             ELSE <<>>
    ELSE <<>>

\* a sync-stop bridge that looks at the position of the event itself
SyncedStopCallsAtTime(tl, time) ==
    IF getValueAtTime(tl, getSecondsAtTime(time)) = "started"
    THEN <<StopCall("bridge", time)>>
    ELSE <<>>

SyncedStopCalls(tl, time) ==
    IF getValueAtTime(tl, getSecondsAtTime(Max(time - SampleTime, 0))) = "started"
    THEN <<StopCall("bridge", time)>>
    ELSE <<>>

\* ----- Source.state
\* a getter that does not look at the state of the Transport
stateOfTimeline(tl) ==
    IF synced THEN getValueAtTime(tl, tSeconds) ELSE getValueAtTime(tl, now)

state(tl) ==
    IF synced
    THEN IF tState = "started" THEN getValueAtTime(tl, tSeconds) ELSE "stopped"
    ELSE getValueAtTime(tl, now)

\* ----- bookkeeping of the last step
\* op: the operation; T: the effective time of a start or stop, the offset of
\* a Transport start or loop; branch: the branch it took; n: the number of
\* Timeline events it cancelled; evicted: the number of events the memory
\* bound evicted; cleared: the number of identifiers unsync cleared; req: the
\* time argument of a start or stop
Op(o, T, branch, n, evicted) ==
    [op |-> o, T |-> T, branch |-> branch, n |-> n, evicted |-> evicted,
     cleared |-> 0, req |-> Undef]

\* a start or stop, with the time it was given
OpAt(o, time, T, branch, n, evicted) ==
    [Op(o, T, branch, n, evicted) EXCEPT !.req = time]

\* the clock the effective time of a start or stop comes from: the Transport's
\* when the source is synced and the time is transport.seconds or the time
\* given, the rendering clock's when it is toSeconds(undefined) or currentTime
ClockOf(time) ==
    IF synced /\ (IsUndef(time) \/ Val(time) >= currentTime)
    THEN "transport"
    ELSE "render"

Rekey(tl, T, time) ==
    {k \in keyed : k.time # T /\ \E i \in 1..Len(tl) : tl[i].time = k.time}
    \cup {[time |-> T, clock |-> ClockOf(time), synced |-> synced] :
              i \in {i \in 1..Len(tl) : tl[i].time = T}}

Did(o, T, offset) == [op |-> o, T |-> T, offset |-> offset]
Other == <<Did("other", 0, 0), Did("other", 0, 0), Did("other", 0, 0)>>

\* the time given is one the run allows
Given(time) == IF IsUndef(time) THEN TRUE ELSE Val(time) <= limits.arg

\* a call of a method of the source; nothing in start, stop, sync, unsync or
\* dispose looks at whether the instance was disposed
Called ==
    /\ disposed => afterDispose < MaxAfterDispose
    /\ afterDispose' = IF disposed THEN afterDispose + 1 ELSE 0

\* the callbacks of kind fn the Transport holds for position pos, in the order scheduled
RECURSIVE Deferred(_, _, _)
Deferred(id, pos, time) ==
    IF id >= nextId THEN <<>>
    ELSE (IF \E c \in tTable : c.id = id /\ c.time = pos
          THEN LET c == CHOOSE c \in tTable : c.id = id
               IN  IF c.fn = "_start"
                   THEN <<StartCall("deferred", time, c.offset, c.duration)>>
                   ELSE <<StopCall("deferred", time)>>
          ELSE <<>>) \o Deferred(id + 1, pos, time)

\* the listeners of an event each run the bridge once
RECURSIVE Repeat(_, _)
Repeat(n, s) == IF n = 0 THEN <<>> ELSE s \o Repeat(n - 1, s)
Emit(event, s) == Repeat(Cardinality({l \in tListeners : l[1] = event}), s)

\* ----- Source.start
\* an identifier that is not kept
TrackNothing(ids, id) == ids
\* this._scheduled.push(sched)
Track(ids, id) == Append(ids, id)

\* a restart that does not cancel the later portion
RestartTimelineNoCancel(tl, ct) == setStateAtTime(tl, "started", ct)
\* this._state.cancel(computedTime); this._state.setStateAtTime("started", computedTime)
RestartTimeline(tl, ct) == setStateAtTime(cancel(tl, ct), "started", ct)

\* a stop that records no stopped event, and one that does not cancel
StopTimelineNoInsert(tl, ct) == cancel(tl, ct)
StopTimelineNoCancel(tl, ct) == setStateAtTime(tl, "stopped", ct)
\* this._state.cancel(computedTime); this._state.setStateAtTime("stopped", computedTime)
StopTimeline(tl, ct) == setStateAtTime(cancel(tl, ct), "stopped", ct)

\* an effective time that is not held back to the rendering clock
computedTimeUnclamped(time) ==
    IF IsUndef(time) /\ synced THEN tSeconds ELSE toSeconds(time)

computedTime(time) ==
    IF IsUndef(time) /\ synced THEN tSeconds ELSE Max(toSeconds(time), currentTime)

StartRestart(time, offset, duration) ==
    LET ct == computedTime(time)
        cut == cancel(timeline, ct)
    IN  /\ getValueAtTime(timeline, ct) = "started"
        /\ timeline' = RestartTimeline(timeline, ct)
        /\ calls' = <<RestartCall(ct, offset, duration)>>
        /\ lastOp' = OpAt("start", time, ct, "restart", Len(timeline) - Len(cut),
                        Len(cut) + 1 - Len(timeline'))
        /\ UNCHANGED <<scheduled, tTable, nextId>>

StartSynced(time, offset, duration) ==
    LET ct == computedTime(time)
        ins == setStateAtTime(timeline, "started", ct)
        tl == SetExtra(ins, ct,
                       Some(IF IsUndef(offset) THEN 0 ELSE toSeconds(offset)),
                       IF Truthy(duration) THEN Some(toSeconds(duration)) ELSE Undef)
    IN  /\ getValueAtTime(timeline, ct) # "started"
        /\ synced
        /\ nextId <= limits.sched
        /\ timeline' = tl
        /\ tTable' = tTable \cup {[id |-> nextId, time |-> ct, fn |-> "_start",
                                   offset |-> offset, duration |-> duration]}
        /\ nextId' = nextId + 1
        /\ scheduled' = Track(scheduled, nextId)
        /\ calls' = IF tState = "started"
                    THEN SyncedStartCalls(tl, now, tSeconds)
                    ELSE <<>>
        /\ lastOp' = OpAt("start", time, ct, "synced", 0,
                        Cardinality({e \in {timeline[i] : i \in 1..Len(timeline)} : e.time # ct})
                        + 1 - Len(tl))

StartUnsynced(time, offset, duration) ==
    LET ct == computedTime(time)
    IN  /\ getValueAtTime(timeline, ct) # "started"
        /\ ~synced
        /\ timeline' = setStateAtTime(timeline, "started", ct)
        /\ calls' = <<StartCall("call", ct, offset, duration)>>
        /\ lastOp' = OpAt("start", time, ct, "unsynced", 0,
                        Cardinality({e \in {timeline[i] : i \in 1..Len(timeline)} : e.time # ct})
                        + 1 - Len(timeline'))
        /\ UNCHANGED <<scheduled, tTable, nextId>>

start(time, offset, duration) ==
    /\ Given(time)
    /\ Called
    /\ \/ StartRestart(time, offset, duration)
       \/ StartSynced(time, offset, duration)
       \/ StartUnsynced(time, offset, duration)
    /\ keyed' = Rekey(timeline', computedTime(time), time)
    /\ UNCHANGED limits
    /\ scen' = IF scen = <<>> /\ ~IsUndef(time) /\ currentTime <= Val(time)
               THEN <<Did("start", Val(time), 0)>>
               ELSE IF scen = <<Did("sync", 0, 0)>> /\ ~IsUndef(time)
               THEN Append(scen, Did("start", Val(time),
                                     IF IsUndef(offset) THEN 0 ELSE Val(offset)))
               ELSE Other
    /\ UNCHANGED <<currentTime, synced, syncedStart, syncedStop, disposed, tState,
                   tSeconds, tBefore, tListeners, nextFn>>

\* ----- Source.stop
stop(time) ==
    LET ct == computedTime(time)
        cut == cancel(timeline, ct)
    IN  /\ Given(time)
        /\ Called
        /\ synced => nextId <= limits.sched
        /\ IF ~synced
           THEN /\ calls' = <<StopCall("call", ct)>>
                /\ UNCHANGED <<scheduled, tTable, nextId>>
           ELSE /\ tTable' = tTable \cup {[id |-> nextId, time |-> ct, fn |-> "_stop",
                                           offset |-> Undef, duration |-> Undef]}
                /\ nextId' = nextId + 1
                /\ scheduled' = Track(scheduled, nextId)
                /\ calls' = <<>>
        /\ timeline' = StopTimeline(timeline, ct)
        /\ lastOp' = OpAt("stop", time, ct, IF synced THEN "synced" ELSE "unsynced",
                        Len(timeline) - Len(cut), Len(cut) + 1 - Len(timeline'))
        /\ keyed' = Rekey(timeline', ct, time)
        /\ UNCHANGED limits
        /\ scen' = IF Len(scen) = 1 /\ scen[1].op = "start" /\ ~IsUndef(time)
                      /\ scen[1].T < Val(time) /\ currentTime <= Val(time)
                   THEN Append(scen, Did("stop", Val(time), 0))
                   ELSE Other
        /\ UNCHANGED <<currentTime, synced, syncedStart, syncedStop, disposed, tState,
                       tSeconds, tBefore, tListeners, nextFn>>

\* ----- Source.sync
sync ==
    /\ Called
    /\ ~synced => nextFn <= MaxSync
    /\ IF ~synced
       THEN /\ synced' = TRUE
            /\ syncedStart' = nextFn
            /\ syncedStop' = nextFn
            /\ nextFn' = nextFn + 1
            /\ tListeners' = tListeners \cup
                   {<<"start", nextFn>>, <<"loopStart", nextFn>>, <<"stop", nextFn>>,
                    <<"pause", nextFn>>, <<"loopEnd", nextFn>>}
       ELSE UNCHANGED <<synced, syncedStart, syncedStop, nextFn, tListeners>>
    /\ calls' = <<>>
    /\ lastOp' = Op("sync", 0, IF synced THEN "synced" ELSE "unsynced", 0, 0)
    /\ scen' = IF scen = <<>> THEN <<Did("sync", 0, 0)>> ELSE Other
    /\ UNCHANGED <<limits, keyed>>
    /\ UNCHANGED <<currentTime, timeline, scheduled, disposed, tState, tSeconds,
                   tBefore, tTable, nextId>>

\* ----- Source.unsync
\* an unsync that leaves the sync-start bridge listening
UnregisterStopOnly ==
    IF synced
    THEN tListeners \ {<<"stop", syncedStop>>, <<"pause", syncedStop>>,
                       <<"loopEnd", syncedStop>>}
    ELSE tListeners

Unregister ==
    IF synced
    THEN tListeners \ {<<"stop", syncedStop>>, <<"pause", syncedStop>>,
                       <<"loopEnd", syncedStop>>, <<"start", syncedStart>>,
                       <<"loopStart", syncedStart>>}
    ELSE tListeners

\* an unsync that clears no identifier
ClearNoneScheduled == tTable

ClearScheduled ==
    {c \in tTable : \A i \in 1..Len(scheduled) : scheduled[i] # c.id}

UnsyncBody ==
    /\ Called
    /\ tListeners' = Unregister
    /\ synced' = FALSE
    /\ tTable' = ClearScheduled
    /\ scheduled' = <<>>
    /\ timeline' = cancel(timeline, 0)
    /\ keyed' = {}
    /\ UNCHANGED limits
    /\ calls' = <<>>
    /\ scen' = Other
    /\ UNCHANGED <<currentTime, syncedStart, syncedStop, tState, tSeconds, tBefore,
                   nextId, nextFn>>

unsync ==
    /\ UnsyncBody
    /\ lastOp' = [Op("unsync", 0, IF synced THEN "synced" ELSE "unsynced",
                      Len(timeline), 0) EXCEPT !.cleared = Len(scheduled)]
    /\ UNCHANGED disposed

\* ----- Source.dispose
dispose ==
    /\ UnsyncBody
    /\ disposed' = TRUE
    /\ lastOp' = [Op("dispose", 0, IF synced THEN "synced" ELSE "unsynced",
                      Len(timeline), 0) EXCEPT !.cleared = Len(scheduled)]

\* ----- the Transport and the rendering clock
TransportStart(offset) ==
    /\ tState # "started"
    /\ tState = "paused" => offset = tSeconds
    /\ tState' = "started"
    /\ tSeconds' = offset
    /\ calls' = Emit("start", SyncedStartCalls(timeline, currentTime, offset))
                \o Deferred(1, offset, currentTime)
    /\ lastOp' = Op("tstart", offset, "-", 0, 0)
    /\ UNCHANGED <<currentTime, timeline, synced, scheduled, syncedStart, syncedStop,
                   disposed, afterDispose, tBefore, tTable, tListeners, nextId, nextFn, limits, keyed, scen>>

TransportStop ==
    /\ tState # "stopped"
    /\ tState' = "stopped"
    /\ tSeconds' = 0
    /\ calls' = Emit("stop", SyncedStopCalls(timeline, currentTime))
    /\ lastOp' = Op("tstop", 0, "-", 0, 0)
    /\ UNCHANGED <<currentTime, timeline, synced, scheduled, syncedStart, syncedStop,
                   disposed, afterDispose, tBefore, tTable, tListeners, nextId, nextFn, limits, keyed, scen>>

TransportPause ==
    /\ tState = "started"
    /\ tState' = "paused"
    /\ calls' = Emit("pause", SyncedStopCalls(timeline, currentTime))
    /\ lastOp' = Op("tpause", 0, "-", 0, 0)
    /\ UNCHANGED <<currentTime, timeline, synced, scheduled, syncedStart, syncedStop,
                   disposed, afterDispose, tSeconds, tBefore, tTable, tListeners, nextId, nextFn, limits, keyed, scen>>

TransportLoop(offset) ==
    /\ tState = "started"
    /\ offset < tSeconds
    /\ tSeconds' = offset
    /\ calls' = Emit("loopEnd", SyncedStopCalls(timeline, currentTime))
                \o Emit("loopStart", SyncedStartCalls(timeline, currentTime, offset))
                \o Deferred(1, offset, currentTime)
    /\ lastOp' = Op("tloop", offset, "-", 0, 0)
    /\ UNCHANGED <<currentTime, timeline, synced, scheduled, syncedStart, syncedStop,
                   disposed, afterDispose, tState, tBefore, tTable, tListeners, nextId, nextFn, limits, keyed, scen>>

Tick ==
    /\ currentTime < MaxTime
    /\ tState = "started" => tSeconds < MaxTime
    /\ currentTime' = currentTime + SampleTime
    /\ tBefore' = tSeconds
    /\ tSeconds' = IF tState = "started" THEN tSeconds + SampleTime ELSE tSeconds
    /\ calls' = IF tState = "started"
                THEN Deferred(1, tSeconds + SampleTime, currentTime + SampleTime)
                ELSE <<>>
    /\ lastOp' = Op("tick", 0, "-", 0, 0)
    /\ UNCHANGED <<timeline, synced, scheduled, syncedStart, syncedStop, disposed,
                   afterDispose, tState, tTable, tListeners, nextId, nextFn, limits, keyed, scen>>

Fresh ==
    /\ currentTime = 0
    /\ timeline = <<>>
    /\ synced = FALSE
    /\ scheduled = <<>>
    /\ syncedStart = 0
    /\ syncedStop = 0
    /\ disposed = FALSE
    /\ afterDispose = 0
    /\ tState = "stopped"
    /\ tSeconds = 0
    /\ tBefore = 0
    /\ tTable = {}
    /\ tListeners = {}
    /\ nextId = 1
    /\ nextFn = 1
    /\ calls = <<>>
    /\ lastOp = Op("init", 0, "-", 0, 0)
    /\ keyed = {}
    /\ scen = <<>>

Init == Fresh /\ limits = [sched |-> MaxSched, arg |-> MaxTime]

\* runs with one more schedule and with times given up to the look-ahead
InitWide == Fresh /\ limits = [sched |-> MaxSched + 1, arg |-> MaxTime + LookAhead]

Next ==
    \/ \E time \in TimeArgs, a \in StartArgs : start(time, a[1], a[2])
    \/ \E time \in TimeArgs : stop(time)
    \/ sync
    \/ unsync
    \/ dispose
    \/ \E offset \in Times : TransportStart(offset)
    \/ TransportStop
    \/ TransportPause
    \/ \E offset \in Times : TransportLoop(offset)
    \/ Tick

Spec == Init /\ [][Next]_vars

SpecWide == InitWide /\ [][Next]_vars

TypeOK ==
    /\ currentTime \in Times
    /\ tSeconds \in Times
    /\ synced \in BOOLEAN
    /\ \A i \in 1..Len(timeline) : timeline[i].state \in {"started", "stopped"}

\* ----- what the claims speak of
EventsOf(tl) == {tl[i] : i \in 1..Len(tl)}

\* the state of the latest event at or before t, stopped when there is none
ValueAt(tl, t) ==
    IF \E e \in EventsOf(tl) : e.time <= t
    THEN (CHOOSE e \in EventsOf(tl) :
              e.time <= t /\ \A f \in EventsOf(tl) : f.time <= t => f.time <= e.time).state
    ELSE "stopped"

QueryTimes == 0..(MaxTime + LookAhead + 1)

NoStackedStart(tl) ==
    \A i \in 1..(Len(tl) - 1) : ~(tl[i].state = "started" /\ tl[i + 1].state = "started")

\* C2 as stated: a start at an effective time at which the Timeline reports
\* started leaves no two started entries in a row, leaves nothing after the
\* effective time and calls restart.
C2_NeverTwoStarted ==
    [][(lastOp'.op = "start" /\ ValueAt(timeline, lastOp'.T) = "started") =>
           /\ NoStackedStart(timeline')
           /\ \A e \in EventsOf(timeline') : e.time <= lastOp'.T
           /\ Len(calls') = 1 /\ calls'[1].fn = "restart"]_vars

\* C2: a start at an effective time T at which the Timeline reports started
\* leaves exactly one entry at or after T, a started entry at T; the entries
\* it keeps are entries the Timeline held before T, so the earlier started
\* entry may stay in front of the new one; it calls restart at T, not _start,
\* and schedules nothing on the Transport.
C2_RestartSingleEntry ==
    [][(lastOp'.op = "start" /\ ValueAt(timeline, lastOp'.T) = "started") =>
           /\ Len(timeline') >= 1
           /\ timeline'[Len(timeline')].time = lastOp'.T
           /\ timeline'[Len(timeline')].state = "started"
           /\ \A i \in 1..(Len(timeline') - 1) :
                  timeline'[i].time < lastOp'.T /\ timeline'[i] \in EventsOf(timeline)
           /\ Len(calls') = 1
           /\ calls'[1].fn = "restart" /\ calls'[1].time = lastOp'.T
           /\ tTable' = tTable /\ scheduled' = scheduled]_vars

C2_Witness ==
    /\ lastOp.op = "start" /\ lastOp.branch = "restart" /\ lastOp.n > 0
    /\ Len(calls) = 1 /\ calls[1].fn = "restart"
    /\ Len(timeline) >= 2 /\ timeline[Len(timeline) - 1].state = "started"

\* C3: after unsync() the Transport holds no deferred callback and no bridge
\* listener of this source, the tracked identifiers are empty, the synced
\* flag is clear and the Timeline reports stopped at every time from 0 on.
C3_UnsyncClears ==
    lastOp.op = "unsync" =>
        /\ tTable = {}
        /\ tListeners = {}
        /\ scheduled = <<>>
        /\ ~synced
        /\ \A t \in QueryTimes : getValueAtTime(timeline, t) = "stopped"

C3_Witness ==
    /\ lastOp.op = "unsync" /\ lastOp.branch = "synced"
    /\ lastOp.cleared = MaxSched /\ lastOp.n > 0

\* C4: once dispose() has run, and until another method is called, the
\* Transport holds no deferred callback and no listener of this source.
C4_DisposeLeavesNothing ==
    (disposed /\ afterDispose = 0) => (tTable = {} /\ tListeners = {})

C4_Witness ==
    /\ disposed /\ afterDispose = 0
    /\ lastOp.op = "dispose" /\ lastOp.branch = "synced" /\ lastOp.cleared > 0

\* C5 as stated: sync() on a synced source and unsync() on a source that is
\* not synced leave the Timeline, the tracked identifiers, the synced flag
\* and the Transport's listeners unchanged.
C5_RedundantNoOp ==
    [][((lastOp'.op = "sync" /\ synced) \/ (lastOp'.op = "unsync" /\ ~synced)) =>
           /\ timeline' = timeline
           /\ scheduled' = scheduled
           /\ synced' = synced
           /\ tListeners' = tListeners]_vars

Cancels == lastOp'.op = "stop" \/ ValueAt(timeline, lastOp'.T) = "started"

\* C6 as stated: a start or stop with effective time T removes every event
\* recorded with time >= T, leaves every event with time < T in place and
\* leaves the event it inserts at T as the latest event.
C6_CancelsForward ==
    [][lastOp'.op \in {"start", "stop"} =>
           /\ \A e \in EventsOf(timeline') : e.time <= lastOp'.T
           /\ Len(timeline') >= 1 /\ timeline'[Len(timeline')].time = lastOp'.T
           /\ \A e \in EventsOf(timeline) :
                  e.time < lastOp'.T => e \in EventsOf(timeline')]_vars

\* C6: a stop, and a start at a time at which the Timeline reports started,
\* with effective time T removes every event recorded with time >= T and
\* leaves the event it inserts at T as the latest; a start at a time at which
\* the Timeline reports stopped removes no later event.  In each case an
\* event with time < T stays as it was, unless it is the oldest of a Timeline
\* that is full, which the memory bound evicts.
C6_ForwardCancel ==
    [][lastOp'.op \in {"start", "stop"} =>
           /\ Cancels =>
                  /\ \A e \in EventsOf(timeline') : e.time <= lastOp'.T
                  /\ Len(timeline') >= 1
                  /\ timeline'[Len(timeline')].time = lastOp'.T
                  /\ timeline'[Len(timeline')].state =
                         (IF lastOp'.op = "stop" THEN "stopped" ELSE "started")
           /\ ~Cancels =>
                  \A e \in EventsOf(timeline) :
                      e.time > lastOp'.T => e \in EventsOf(timeline')
           /\ \A e \in EventsOf(timeline) :
                  (e.time < lastOp'.T /\ e \notin EventsOf(timeline')) =>
                      /\ Len(timeline') = Memory
                      /\ \A f \in EventsOf(timeline') : e.time < f.time
           /\ \A e \in EventsOf(timeline') :
                  e.time # lastOp'.T => e \in EventsOf(timeline)]_vars

C6_Witness ==
    /\ lastOp.op = "stop" /\ lastOp.n > 0 /\ lastOp.evicted = 0
    /\ Len(timeline) >= 2
    /\ timeline[Len(timeline)].time = lastOp.T

TimesOf(tl) == {e.time : e \in EventsOf(tl)}

Kept == {t \in TimesOf(timeline) : IF Cancels THEN t < lastOp'.T ELSE t # lastOp'.T}
            \cup {lastOp'.T}

Oldest(S) == CHOOSE t \in S : \A u \in S : t <= u

\* C7: the Timeline never holds more than Memory events, and a start or stop
\* whose insert would exceed Memory evicts the event with the smallest time.
C7_MemoryBound ==
    [][/\ Len(timeline') <= Memory
       /\ (lastOp'.op \in {"start", "stop"} /\ Cardinality(Kept) > Memory) =>
              TimesOf(timeline') = Kept \ {Oldest(Kept)}]_vars

C7_Witness ==
    /\ lastOp.op \in {"start", "stop"} /\ lastOp.evicted > 0
    /\ Len(timeline) = Memory

\* C8: the state of a synced source is stopped whenever the Transport is not
\* started, whatever the Timeline holds; when the Transport is started it is
\* the Timeline's value at the Transport's seconds; the state of an unsynced
\* source is the Timeline's value at the rendering time plus the look-ahead.
C8_DerivedState ==
    /\ (synced /\ tState # "started") => state(timeline) = "stopped"
    /\ (synced /\ tState = "started") => state(timeline) = ValueAt(timeline, tSeconds)
    /\ ~synced => state(timeline) = ValueAt(timeline, currentTime + LookAhead)

C8_Witness ==
    /\ synced /\ tState = "paused"
    /\ ValueAt(timeline, tSeconds) = "started"
    /\ state(timeline) = "stopped"

\* C9 as stated: after sync() then start(t0, offset), a Transport start or
\* loop-start at offset T > t0 makes the sync-start bridge invoke _start with
\* offset (offset + T - t0).
C9_BridgeOffset ==
    [][(/\ Len(scen) = 2 /\ scen[1].op = "sync" /\ scen[2].op = "start"
        /\ lastOp'.op \in {"tstart", "tloop"}
        /\ lastOp'.T > scen[2].T) =>
           \E i \in 1..Len(calls') :
               /\ calls'[i].fn = "_start" /\ calls'[i].by = "bridge"
               /\ calls'[i].offset = Some(scen[2].offset + lastOp'.T - scen[2].T)]_vars

StopEvents == {"tstop", "tpause", "tloop"}

BridgeStops(cs) == {i \in 1..Len(cs) : cs[i].fn = "_stop" /\ cs[i].by = "bridge"}

\* C10: while synced, a Transport stop, pause or loop-end at rendering time r
\* makes the sync-stop bridge invoke _stop(r) when the Timeline reports
\* started at the Transport position of max(r - SampleTime, 0), and does not
\* invoke _stop when the Timeline reports stopped there.
C10_BridgeStops ==
    [][(synced /\ lastOp'.op \in StopEvents) =>
           IF ValueAt(timeline, getSecondsAtTime(Max(currentTime - SampleTime, 0)))
                  = "started"
           THEN \E i \in BridgeStops(calls') : calls'[i].time = currentTime
           ELSE BridgeStops(calls') = {}]_vars

C10_Witness ==
    /\ synced /\ lastOp.op \in StopEvents
    /\ BridgeStops(calls) # {}
    /\ \A c \in tTable : c.fn # "_stop"

Methods == {"start", "stop", "sync", "unsync"}

\* C11 as stated: a call of start, stop, sync or unsync on a disposed source
\* fails: it invokes no primitive, changes nothing of the source and leaves no
\* deferred callback and no listener of the source on the Transport.
C11_DisposedCallFails ==
    [][(disposed /\ lastOp'.op \in Methods) =>
           /\ calls' = <<>>
           /\ timeline' = timeline /\ synced' = synced /\ scheduled' = scheduled
           /\ tTable' = {} /\ tListeners' = {}]_vars

Explicit == lastOp'.op \in {"start", "stop"} /\ ~IsUndef(lastOp'.req)

C13_OneClock == \A a \in keyed : \A b \in keyed : a.clock = b.clock

Tracked(ids) == {ids[i] : i \in 1..Len(ids)}

\* C14: after every step each deferred callback this instance has on the
\* Transport has its identifier in the tracked list, and an identifier enters
\* the list only through a start or a stop called while synced.
C14_TrackedAuthoritative ==
    [][/\ \A c \in tTable' : c.id \in Tracked(scheduled')
       /\ Tracked(scheduled') \ Tracked(scheduled) # {} =>
              lastOp'.op \in {"start", "stop"} /\ synced]_vars

C14_Witness ==
    /\ lastOp.op \in {"start", "stop"} /\ synced
    /\ tTable # {}
    /\ \A c \in tTable : c.id \in Tracked(scheduled)

BridgeStarts == {calls[i] : i \in {i \in 1..Len(calls) :
                                       calls[i].fn = "_start" /\ calls[i].by = "bridge"}}

\* C18 as stated: the sync-start bridge never invokes _start with a duration
\* of zero or less.
C18_PositiveDuration ==
    \A c \in BridgeStarts : ~IsUndef(c.duration) => Val(c.duration) > 0

\* C19 as stated: the started event a start call made while synced puts in
\* the Timeline carries a defined offset and, on the restart branch too, the
\* duration the call was given.
C19_SyncedEventCarriesOffset ==
    [][(lastOp'.op = "start" /\ synced) =>
           \A e \in EventsOf(timeline') :
               (e.time = lastOp'.T /\ e.state = "started") =>
                   /\ ~IsUndef(e.offset)
                   /\ lastOp'.branch = "restart" => e.duration = calls'[1].duration]_vars

\* the last primitive invoked by the step before was _start or restart, so the
\* unit is playing
Playing == calls # <<>> /\ calls[Len(calls)].fn \in {"_start", "restart"}

\* C20 as stated: an unsync or a dispose that finds the unit playing invokes
\* _stop before it resets the Timeline to stopped.
C20_UnsyncStopsUnit ==
    [][(lastOp'.op \in {"unsync", "dispose"} /\ Playing) =>
           \E i \in 1..Len(calls') : calls'[i].fn = "_stop"]_vars

\* the started events of the Timeline that were recorded while synced
SyncedStarted(tl) ==
    {e \in EventsOf(tl) :
        e.state = "started" /\ \E k \in keyed : k.time = e.time /\ k.synced}

StartsBy(cs, by) == Cardinality({i \in 1..Len(cs) : cs[i].fn = "_start" /\ cs[i].by = by})

\* C17 as stated: in a pass of the Transport, a started event recorded while
\* synced has _start invoked once by its deferred callback when the position
\* reaches its time, and once by the sync-start bridge when the pass starts
\* after its time with the event in effect.
C17_ExactlyOnce ==
    [][(lastOp'.op \in {"tstart", "tloop", "tick"} /\ tState' = "started" /\ synced) =>
           \A e \in SyncedStarted(timeline) :
               /\ e.time = tSeconds' => StartsBy(calls', "deferred") = 1
               /\ (/\ lastOp'.op # "tick"
                   /\ e.time < tSeconds'
                   /\ \A f \in EventsOf(timeline) : f.time <= tSeconds' => f.time <= e.time)
                  => StartsBy(calls', "bridge") = 1]_vars

\* C15 as stated: while synced, when a deferred _start callback fires at the
\* Transport's position, the Timeline reports started at that position.
C15_DeferredStartInEffect ==
    (synced /\ StartsBy(calls, "deferred") > 0) =>
        getValueAtTime(timeline, tSeconds) = "started"

\* C16 as stated: a synced start(t) called while the Transport runs at a
\* position before t, with the Timeline stopped at t, invokes no _start at
\* call time.
C16_NoStartAtCallTime ==
    [][(/\ lastOp'.op = "start" /\ synced /\ tState = "started"
        /\ ~IsUndef(lastOp'.req)
        /\ tSeconds < Val(lastOp'.req)
        /\ currentTime <= Val(lastOp'.req)
        /\ getValueAtTime(timeline, Val(lastOp'.req)) = "stopped") =>
           \A i \in 1..Len(calls') : calls'[i].fn # "_start"]_vars

====
